---- MODULE Spec2Model ----
(***************************************************************************)
(* Model of function_app.py: the WIQL query builder (build_query), the     *)
(* work-item fetcher (get_work_items, build_work_item), the /v1/wiql       *)
(* endpoint (azure_board_query) and the /v1/workitems endpoint             *)
(* (create_work_item).                                                     *)
(*                                                                         *)
(* A Python str is a sequence of tokens.  Every quote character is a token *)
(* of its own, so quoting and quote-escaping are computed, not assumed.    *)
(* An Optional[T] is a sequence of length 0 (None) or 1.  A dict is a      *)
(* sequence of <<key, value>> pairs in insertion order, or a function when *)
(* only lookups are made.                                                  *)
(***************************************************************************)
EXTENDS Integers, Sequences, FiniteSets, TLC

VARIABLES
    pc,           \* where the call or request being served stands
    params,       \* the WIQLQueryParams in use
    team,         \* config.team
    wiql,         \* the query build_query returned
    queryOutcome, \* "none", or how client.query_by_wiql ended: "raised", "returned"
    result,       \* what client.query_by_wiql returned
    ids,          \* get_work_items' local ids
    loop_i,       \* get_work_items' loop variable i
    bulkCalls,    \* the ID lists of the client.get_work_items calls, in call order
    values,       \* get_work_items' local values: the rows
    response,     \* the Response of /v1/wiql
    body,         \* the CreateWorkItemBody of /v1/workitems
    patch_doc,    \* the JSON-Patch document posted
    posts,        \* number of creation POSTs made
    status,       \* response.status_code of the creation POST
    created,      \* response.json() of the creation POST
    embedCalls,   \* number of embedding calls made
    indexCalls,   \* number of search-index upserts made
    indexFailed,  \* whether the indexing step raised
    ret           \* what create_work_item returned

vars == <<pc, params, team, wiql, queryOutcome, result, ids, loop_i, bulkCalls, values,
          response, body, patch_doc, posts, status, created, embedCalls,
          indexCalls, indexFailed, ret>>

(* ------------------------------ bounds --------------------------------- *)

\* longest excluded_states list a caller supplies
MaxStates == 2
\* longest area_paths list a caller supplies
MaxPaths == 2

(* --------------------------- python helpers ---------------------------- *)

None == <<>>

Some(x) == <<x>>

\* Python truthiness of an Optional[str]: None and "" are falsy.
IsFalsy(opt) == opt = None \/ opt[1] = <<>>

Range(s) == {s[i] : i \in DOMAIN s}

RECURSIVE Join(_, _)
\* sep.join(parts), parts a sequence of strs
Join(parts, sep) ==
    IF parts = <<>> THEN <<>>
    ELSE IF Len(parts) = 1 THEN parts[1]
    ELSE parts[1] \o sep \o Join(Tail(parts), sep)

RECURSIVE Replace(_, _, _)
\* s.replace(old, new) for a one-token old
Replace(s, old, new) ==
    IF s = <<>> THEN <<>>
    ELSE (IF Head(s) = old THEN new ELSE <<Head(s)>>) \o Replace(Tail(s), old, new)

RECURSIVE TakeUntil(_, _)
\* the tokens of q before the first occurrence of token stop
TakeUntil(q, stop) ==
    IF q = <<>> \/ Head(q) = stop THEN <<>> ELSE <<Head(q)>> \o TakeUntil(Tail(q), stop)

\* f"'{s}'"
Quote(s) == <<"'">> \o s \o <<"'">>

\* s occurs in q as a contiguous slice
Contains(q, s) ==
    \E i \in 0..(Len(q) - Len(s)) : SubSeq(q, i + 1, i + Len(s)) = s

(* ----------------------------- field names ----------------------------- *)

\* The field names the model uses, in Python's str order (code points).
FieldOrder ==
    << "Custom.05912272-678c-4f26-8aa7-72eba9b2a56a", "Custom.GanhoQuantitativo",
       "Custom.MetaEloAssociada2", "Custom.MetaEloassociada",
       "Custom.Metadiretoriaassociada", "Custom.TipodeIniciativa",
       "Microsoft.VSTS.Common.BusinessValue", "Microsoft.VSTS.Common.ValueArea",
       "Microsoft.VSTS.Scheduling.Effort", "System.Description", "System.Id",
       "System.State", "System.Tags", "System.Title", "System.WorkItemType" >>

\* the position of every field name in FieldOrder
FieldRank == [f \in Range(FieldOrder) |-> CHOOSE i \in DOMAIN FieldOrder : FieldOrder[i] = f]

\* position of a field name in str order: f < g in Python iff StrRank(f) < StrRank(g)
StrRank(f) == FieldRank[f]

RECURSIVE sorted(_)
\* sorted(keys): ascending str order
sorted(keys) ==
    IF keys = {} THEN <<>>
    ELSE LET least == CHOOSE k \in keys : \A o \in keys : StrRank(k) <= StrRank(o)
         IN  <<least>> \o sorted(keys \ {least})

\* one entry of an allowed-fields dict (titles and paths are written here
\* without their diacritics)
FieldEntry(name, title) == [name |-> name, title |-> title]

allowed_fields_default ==
    [f \in Range(FieldOrder) |->
        FieldEntry(f,
            CASE f = "System.Id" -> "ID"
              [] f = "System.WorkItemType" -> "Work Item Type"
              [] f = "System.Title" -> "Title"
              [] f = "System.State" -> "State"
              [] f = "Microsoft.VSTS.Scheduling.Effort" -> "Effort"
              [] f = "Microsoft.VSTS.Common.BusinessValue" -> "Business Value"
              [] f = "Microsoft.VSTS.Common.ValueArea" ->
                     "Qual o problema ou dor do cliente a ser resolvido"
              [] f = "System.Tags" -> "Tags"
              [] f = "System.Description" -> "Description"
              [] f = "Custom.TipodeIniciativa" -> "Tipo de Iniciativa"
              [] f = "Custom.05912272-678c-4f26-8aa7-72eba9b2a56a" -> "Projeto Estrategico"
              [] f = "Custom.MetaEloassociada" -> "Meta Elo associada"
              [] f = "Custom.MetaEloAssociada2" -> "Meta Elo Associada 2"
              [] f = "Custom.Metadiretoriaassociada" -> "Meta diretoria associada"
              [] f = "Custom.GanhoQuantitativo" -> "Ganho Quantitativo")]

(* ---------------------------- query builder ---------------------------- *)

\* the fallback of params.excluded_states
DefaultExcludedStates ==
    << <<"Completed">>, <<"Canceled">>, <<"Done">>, <<"Closed">>, <<"Resolved">> >>

\* the fallback list assigned to the local area_paths
DefaultAreaPaths ==
    << <<"Elo", "\\", "Meios de Pagamento e Anti Fraude", "\\", "Meios de Pagamento",
         "\\", "Credenciais de Pagamentos">>,
       <<"Elo", "\\", "Meios de Pagamento e Anti Fraude", "\\", "Anti-Fraude",
         "\\", "Compra Online">>,
       <<"Elo", "\\", "Meios de Pagamento e Anti Fraude", "\\", "Anti-Fraude",
         "\\", "Demandas a Prev Fraude">>,
       <<"Elo", "\\", "Meios de Pagamento e Anti Fraude", "\\", "Anti-Fraude",
         "\\", "Transacional">>,
       <<"Elo", "\\", "Meios de Pagamento e Anti Fraude", "\\", "Anti-Fraude",
         "\\", "Validacao Cadastral">>,
       <<"Elo", "\\", "Meios de Pagamento e Anti Fraude", "\\", "Anti-Fraude",
         "\\", "Consorcio combate a fraudes">> >>

\* WIQL_TEMPLATE.format(selected_fields=, workitem_types=, extra_filters=, team=)
WIQL_TEMPLATE(selected_fields, team_, workitem_types, extra_filters) ==
    <<"\nSELECT\n   ">> \o selected_fields
    \o <<"\nFROM workitems\nWHERE\n   [System.TeamProject] = ", "'">> \o team_ \o <<"'">>
    \o <<"\n   AND [System.WorkItemType] IN (">> \o workitem_types \o <<")">>
    \o <<"\n   AND [System.State] <> ", "'", "'">>
    \o <<"\n   AND [System.CreatedDate] >= @Today - 30">>
    \o <<"\n   AND ", "[System.State] NOT IN (",
         "'", "Completed", "'", ",", "'", "Canceled", "'", ",", "'", "Done", "'", ",",
         "'", "Resolved", "'", ",", "'", "Closed", "'", ")">>
    \o <<"\n   ">> \o extra_filters
    \o <<"\nORDER BY\n   [System.ChangedDate] DESC\n">>

\* ap.replace("'", "\\'")
EscapeQuote(ap) == Replace(ap, "'", <<"\\", "'">>)

\* "[System.State] NOT IN (...)" of lines 200-201
ExcludedStatesClause(states) ==
    <<"[System.State] NOT IN (">>
    \o Join([i \in DOMAIN states |-> Quote(states[i])], <<", ">>) \o <<")">>

\* one "[System.AreaPath] UNDER '...'" condition
UnderCondition(ap) == <<"[System.AreaPath] UNDER ", "'">> \o EscapeQuote(ap) \o <<"'">>

\* area_path_filter of lines 214-221; paths is params.area_paths
AreaPathFilter(paths) ==
    IF Len(paths) = 1
    THEN <<"AND (">> \o UnderCondition(paths[1]) \o <<") ">>
    ELSE <<"AND ( ">>
         \o Join([i \in DOMAIN paths |-> UnderCondition(paths[i])], <<" OR ">>)
         \o <<" ) ">>

\* f"[{field}] IN ({','.join(values_list)})"
ValueClause(field, vals) ==
    <<"[">> \o field \o <<"] IN (">>
    \o Join([i \in DOMAIN vals |-> Quote(vals[i])], <<",">>) \o <<")">>

\* f"[{field}] CONTAINS '{keyword}'"
KeywordClause(field, keyword) ==
    <<"[">> \o field \o <<"] CONTAINS ">> \o Quote(keyword)

\* ValueClauses without the "if values" test of line 230
ValueClauses_KeepEmpty(value_filters) ==
    [i \in DOMAIN value_filters |-> ValueClause(value_filters[i][1], value_filters[i][2])]

RECURSIVE ValueClauses(_)
\* the loop over value_filters.items(): an entry with an empty list adds nothing
ValueClauses(value_filters) ==
    IF value_filters = <<>> THEN <<>>
    ELSE LET e == Head(value_filters)
         IN  (IF e[2] # <<>> THEN <<ValueClause(e[1], e[2])>> ELSE <<>>)
             \o ValueClauses(Tail(value_filters))

\* the loop over keyword_filters.items()
KeywordClauses(keyword_filters) ==
    [i \in DOMAIN keyword_filters |->
        KeywordClause(keyword_filters[i][1], keyword_filters[i][2])]

\* the clauses list as it stands after line 222: state exclusion, then area path
ClausesBeforeReset(p) ==
    LET excluded_states == IF p.excluded_states # <<>> THEN p.excluded_states
                           ELSE DefaultExcludedStates
        clauses_201 == IF excluded_states # <<>>
                       THEN <<ExcludedStatesClause(excluded_states)>> ELSE <<>>
        \* lines 205-213 rebind the local area_paths; lines 214-221 read params.area_paths
        area_paths == IF p.area_paths = <<>> THEN DefaultAreaPaths ELSE p.area_paths
    IN  Append(clauses_201, AreaPathFilter(p.area_paths))

\* line 227, "clauses = []": what is kept of the clauses built so far
ResetClauses(clauses) == <<>>

\* the structured branch of build_query, lines 196-251
StructuredQuery(p, team_) ==
    LET clauses_227 == ResetClauses(ClausesBeforeReset(p))
        clauses == clauses_227 \o ValueClauses(p.value_filters)
                               \o KeywordClauses(p.keyword_filters)
        extra_filters == IF clauses # <<>>
                         THEN <<" AND ">> \o Join(clauses, <<" AND ">>) ELSE <<>>
        sorted_fields == sorted(DOMAIN p.allowed_fields)
        selected_fields == Join([i \in DOMAIN sorted_fields |-> <<sorted_fields[i]>>],
                                <<", ">>)
        workitem_types == << <<"Iniciativa E2E">> >>
    IN  WIQL_TEMPLATE(selected_fields,
                      IF team_ # <<>> THEN team_ ELSE <<"Elo">>,
                      Join([i \in DOMAIN workitem_types |-> Quote(workitem_types[i])],
                           <<", ">>),
                      extra_filters)

\* build_query with the raw override ignored
build_query_NoOverride(p, team_, query) == StructuredQuery(p, team_)

\* build_query(params, config, query): query is an Optional[str]
build_query(p, team_, query) ==
    IF IsFalsy(query) THEN StructuredQuery(p, team_) ELSE query[1]

(* ------------------- build_query as a pure function -------------------- *)

\* all sequences over S of length at most n
SeqsUpTo(S, n) == UNION {[1..k -> S] : k \in 0..n}

StateNames == {<<"Active">>, <<"Closed">>}

AreaPathNames == {<<"Elo", "\\", "Anti-Fraude">>, <<"O", "'", "Brien">>}

\* value_filters dicts: field -> list of values, in insertion order
ValueFilterChoices ==
    { <<>>,
      << <<<<"System.State">>, <<<<"Active">>>>>> >>,
      << <<<<"System.State">>, <<<<"Active">>, <<"New">>>>>> >>,
      << <<<<"System.State">>, <<>>>> >>,
      << <<<<"System.State">>, <<<<"Active">>>>>>, <<<<"System.Tags">>, <<<<"pix">>>>>> >>,
      << <<<<"System.State">>, <<>>>>, <<<<"System.Tags">>, <<<<"pix">>>>>> >> }

\* keyword_filters dicts: field -> keyword, in insertion order
KeywordFilterChoices ==
    { <<>>,
      << <<<<"System.Title">>, <<"fraude">>>> >>,
      << <<<<"System.Title">>, <<"fraude">>>>, <<<<"System.Description">>, <<"Lyra">>>> >>,
      << <<<<"System.Title">>, <<"d", "'", "agua">>>> >> }

\* params.query: absent, the empty string, a raw WIQL string
RawQuery == <<"SELECT [System.Id] FROM workitems WHERE [System.State] = ", "'", "New", "'">>

QueryChoices == {None, Some(<<>>), Some(RawQuery)}

CustomAllowedFields ==
    [f \in {"System.Title", "System.Id"} |->
        FieldEntry(f, IF f = "System.Id" THEN "Identifier" ELSE "Headline")]

AllowedFieldsChoices == {allowed_fields_default, CustomAllowedFields}

Teams == {<<>>, <<"Elo">>, <<"Outro Time">>}

WIQLQueryParams(excluded_states, area_paths, value_filters, keyword_filters, query, allowed_fields) ==
    [excluded_states |-> excluded_states, area_paths |-> area_paths,
     value_filters |-> value_filters, keyword_filters |-> keyword_filters,
     query |-> query, allowed_fields |-> allowed_fields]

QueryParamsSpace ==
    { WIQLQueryParams(es, ap, vf, kf, q, af) :
        es \in SeqsUpTo(StateNames, MaxStates), ap \in SeqsUpTo(AreaPathNames, MaxPaths),
        vf \in ValueFilterChoices, kf \in KeywordFilterChoices,
        q \in QueryChoices, af \in AllowedFieldsChoices }

\* the endpoints' variables while no request is being served
EndpointsIdle ==
    /\ queryOutcome = "none" /\ result = None /\ ids = <<>> /\ loop_i = 0 /\ bulkCalls = <<>> /\ values = <<>>
    /\ response = None /\ body = None /\ patch_doc = <<>> /\ posts = 0 /\ status = 0
    /\ created = None /\ embedCalls = 0 /\ indexCalls = 0 /\ indexFailed = FALSE
    /\ ret = None

endpointVars == <<queryOutcome, result, ids, loop_i, bulkCalls, values, response, body, patch_doc,
                  posts, status, created, embedCalls, indexCalls, indexFailed, ret>>

InitBuildQuery ==
    /\ pc = "call"
    /\ params \in QueryParamsSpace
    /\ team \in Teams
    /\ wiql = None
    /\ EndpointsIdle

\* one call build_query(params, config, query=params.query)
CallBuildQuery ==
    /\ pc = "call"
    /\ wiql' = Some(build_query(params, team, params.query))
    /\ pc' = "built"
    /\ UNCHANGED <<params, team, endpointVars>>

NextBuildQuery == CallBuildQuery

SpecBuildQuery == InitBuildQuery /\ [][NextBuildQuery]_vars

(* ------------------------- claims: build_query ------------------------- *)

\* the state names each [System.State] NOT IN (...) clause of q lists
NotInClauses(q) ==
    { SelectSeq(TakeUntil(SubSeq(q, i + 1, Len(q)), ")"),
                LAMBDA t : t \notin {"'", ",", ", "}) :
        i \in {j \in DOMAIN q : q[j] = "[System.State] NOT IN ("} }

\* states, a list of one-token strs, as the list of its tokens
Flatten(states) == [i \in DOMAIN states |-> states[i][1]]

\* C1: with no raw override the built query has a [System.State] NOT IN (...)
\* clause that lists exactly the supplied excluded_states, and the five
\* default states when the list is empty.
C1_ExcludedStatesListed ==
    (pc = "built" /\ IsFalsy(params.query)) =>
        \E listed \in NotInClauses(wiql[1]) :
            Range(listed) = Range(Flatten(IF params.excluded_states = <<>>
                                          THEN DefaultExcludedStates
                                          ELSE params.excluded_states))

\* the number of [System.AreaPath] UNDER conditions in q
UnderCount(q) == Cardinality({j \in DOMAIN q : q[j] = "[System.AreaPath] UNDER "})

\* C2: with no raw override the built query holds one UNDER condition per
\* area path (the six default paths when the list is empty), OR-joined when
\* there are several, whatever the value and keyword filters are.
C2_AreaPathFiltered ==
    (pc = "built" /\ IsFalsy(params.query)) =>
        LET paths == IF params.area_paths = <<>> THEN DefaultAreaPaths
                     ELSE params.area_paths
        IN  /\ UnderCount(wiql[1]) = Len(paths)
            /\ Contains(wiql[1],
                   Join([i \in DOMAIN paths |-> UnderCondition(paths[i])], <<" OR ">>))

PyNone == [t |-> "none"]

PyStr(s) == [t |-> "str", v |-> s]

PyInt(n) == [t |-> "int", v |-> n]

\* bool(value)
Truthy(x) ==
    CASE x.t = "none" -> FALSE
      [] x.t = "str" -> x.v # <<>>
      [] x.t = "int" -> x.v # 0

\* str(value)
str(x) ==
    CASE x.t = "none" -> <<"None">>
      [] x.t = "str" -> x.v
      [] x.t = "int" -> <<ToString(x.v)>>

(* -------------------- field projector / text cleanup ------------------- *)

\* HTML tags among the tokens of a description
HtmlTags == {"<p>", "</p>", "<div>", "</div>", "<br>"}

\* value.encode().decode("unicode_escape"): a backslash escape is decoded, a
\* non-ASCII character comes back as its UTF-8 bytes read as Latin-1, and a
\* truncated escape raises (None)
UnicodeEscapeDecode(s) ==
    IF \E i \in DOMAIN s : s[i] = "\\x" THEN None
    ELSE Some(Replace(Replace(s, "\\n", <<"\n">>), "U+00E7", <<"U+00C3", "U+00A7">>))

\* one level of character-reference decoding
DecodeEntities(s) ==
    [i \in DOMAIN s |->
        CASE s[i] = "&amp;" -> "&"
          [] s[i] = "&lt;" -> "<"
          [] s[i] = "&amp;lt;" -> "&lt;"
          [] OTHER -> s[i]]

RECURSIVE TextNodes(_, _)
\* the text nodes of the parsed markup, in document order; cur is the node being read
TextNodes(s, cur) ==
    IF s = <<>> THEN (IF cur = <<>> THEN <<>> ELSE <<cur>>)
    ELSE IF Head(s) \in HtmlTags
         THEN (IF cur = <<>> THEN <<>> ELSE <<cur>>) \o TextNodes(Tail(s), <<>>)
         ELSE TextNodes(Tail(s), Append(cur, Head(s)))

\* BeautifulSoup(value, "html.parser").get_text(separator=" ")
SoupGetText(s) == Join(TextNodes(DecodeEntities(s), <<>>), <<" ">>)

\* html.unescape(text)
HtmlUnescape(s) == DecodeEntities(s)

\* lines 275-280: the System.Description clean-up
DescriptionText(s) ==
    LET decoded == UnicodeEscapeDecode(s)
        value == IF decoded = None THEN s ELSE decoded[1]
    IN  HtmlUnescape(SoupGetText(value))

\* one column of build_work_item: lines 272-283
ProjectField(fields, f) ==
    IF f \in DOMAIN fields /\ Truthy(fields[f])
    THEN IF f = "System.Description"
         THEN str(PyStr(DescriptionText(fields[f].v)))
         ELSE str(fields[f])
    ELSE str(PyStr(<<>>))

\* build_work_item with the else branch of line 281 lost: no column for an empty field
build_work_item_SkipEmpty(work_item, sorted_fields) ==
    SelectSeq([k \in DOMAIN sorted_fields |->
                  ProjectField(work_item.fields, sorted_fields[k])],
              LAMBDA col : col # <<>>)

\* build_work_item(work_item, sorted_fields)
build_work_item(work_item, sorted_fields) ==
    [k \in DOMAIN sorted_fields |-> ProjectField(work_item.fields, sorted_fields[k])]

(* ------------------------- the remote service -------------------------- *)

\* the k-th work-item ID of a query result: distinct, not in ascending order
IdAt(k) == 1 + ((k * 37) % 409)

\* The description the remote service holds for a work item.
DescriptionOf(id) ==
    CASE id % 4 = 0 -> <<"<p>", "Fraude ", "&amp;", " risco", "</p>">>
      [] id % 4 = 1 -> <<"<div>", "a", "</div>", "<div>", "b", "&amp;lt;", "</div>">>
      [] id % 4 = 2 -> <<"Valida", "U+00E7", "ao", "\\n", "fim">>
      [] OTHER -> <<"caminho C:", "\\x", "<br>", "fim">>

\* The record the remote service returns for a work-item ID: some fields are
\* absent, some present but falsy (None, "", 0), the others hold a value.
WorkItem(id) ==
    [id |-> id,
     fields |->
        [f \in {g \in Range(FieldOrder) : (id + StrRank(g)) % 4 # 0} |->
            IF (id + StrRank(f)) % 4 = 1
            THEN (IF id % 2 = 0 THEN PyNone ELSE PyStr(<<>>))
            ELSE CASE f = "System.Id" -> PyInt(id)
                   [] f = "Microsoft.VSTS.Scheduling.Effort" -> PyInt(id % 3)
                   [] f = "System.Description" -> PyStr(DescriptionOf(id))
                   [] OTHER -> PyStr(<<f, "=", ToString(id)>>)]]

(* ------------------------------ fetcher -------------------------------- *)

\* batch_size, line 175
batch_size == 199

\* longest ID list a query result holds
MaxIds == 400

Min(a, b) == IF a < b THEN a ELSE b

\* a WorkItemQueryResult: work_items and work_item_relations are Optional lists;
\* a relation is its target's ID, or None when it has no target
WorkItemQueryResult(work_items, work_item_relations) ==
    [work_items |-> work_items, work_item_relations |-> work_item_relations]

\* ExtractIds with the two branches swapped: relations are looked at first
ExtractIds_RelationsFirst(res) ==
    IF res = None THEN [ids |-> <<>>, early |-> FALSE]
    ELSE LET r == res[1]
         IN  IF r.work_item_relations # None /\ r.work_item_relations[1] # <<>>
             THEN LET targets == SelectSeq(r.work_item_relations[1], LAMBDA rel : rel # None)
                      found == [k \in DOMAIN targets |-> targets[k][1]]
                  IN  [ids |-> found, early |-> found = <<>>]
             ELSE IF r.work_items # None /\ r.work_items[1] # <<>>
             THEN [ids |-> r.work_items[1], early |-> FALSE]
             ELSE [ids |-> <<>>, early |-> TRUE]

\* lines 159-173: the local ids, and whether get_work_items returns [] at once
ExtractIds(res) ==
    IF res = None THEN [ids |-> <<>>, early |-> FALSE]
    ELSE LET r == res[1]
             work_items == r.work_items
         IN  IF work_items # None /\ work_items[1] # <<>>
             THEN [ids |-> work_items[1], early |-> FALSE]
             ELSE IF r.work_item_relations # None /\ r.work_item_relations[1] # <<>>
             THEN LET rels == r.work_item_relations[1]
                      targets == SelectSeq(rels, LAMBDA rel : rel # None)
                      found == [k \in DOMAIN targets |-> targets[k][1]]
                  IN  [ids |-> found, early |-> found = <<>>]
             ELSE [ids |-> <<>>, early |-> TRUE]

\* the slice with an inclusive end, ids[i:i+batch_size+1]
BatchIds_InclusiveEnd(all_ids, i) ==
    SubSeq(all_ids, i + 1, Min(i + batch_size + 1, Len(all_ids)))

\* ids[i:i+batch_size]
BatchIds(all_ids, i) == SubSeq(all_ids, i + 1, Min(i + batch_size, Len(all_ids)))

\* lines 181-184: the rows of one batch; an empty row is dropped
BatchRows(batch_ids, sorted_fields) ==
    SelectSeq([k \in DOMAIN batch_ids |->
                  build_work_item(WorkItem(batch_ids[k]), sorted_fields)],
              LAMBDA wi : wi # <<>>)

(* --------------------------- /v1/wiql endpoint ------------------------- *)

RECURSIVE Split(_, _)
\* s.split(sep) for a one-token sep: never an empty list
Split(s, sep) ==
    LET first == TakeUntil(s, sep)
    IN  IF Len(first) = Len(s) THEN <<first>>
        ELSE <<first>> \o Split(SubSeq(s, Len(first) + 2, Len(s)), sep)

\* values of the ADO_EXCLUDED_STATES environment variable (the first is the default)
EnvExcludedStates ==
    { <<"Completed", ",", "Canceled", ",", "Done", ",", "Resolved", ",", "Closed">>,
      <<"Active">> }

\* an allowed_fields dict with an entry that has no 'title'
UntitledAllowedFields ==
    [f \in {"System.Title", "System.State"} |->
        IF f = "System.State" THEN [name |-> f] ELSE FieldEntry(f, "Headline")]

\* req.parameters of the requests served: the request's own excluded_states is
\* never read by azure_board_query
WiqlRequests ==
    { WIQLQueryParams(<<>>, ap, vf, <<>>, q, af) :
        ap \in {<< <<"Elo", "\\", "Anti-Fraude">> >>},
        vf \in {<< <<<<"System.State">>, <<<<"Active">>>>>> >>},
        q \in {None, Some(RawQuery)},
        af \in {<<>>, allowed_fields_default, CustomAllowedFields, UntitledAllowedFields} }

\* query results the remote service may return
QueryResults ==
    LET counts == {1, 2, batch_size - 1, batch_size, batch_size + 1, 250,
                   2 * batch_size, 2 * batch_size + 1, MaxIds}
        items(ns) == {Some([k \in 1..n |-> IdAt(k)]) : n \in ns}
        \* relation k of a list points at a target, or (every gap-th one) has none
        rels(n, gap) == [k \in 1..n |->
                            IF gap > 0 /\ k % gap = 0 THEN None ELSE Some(1000 + IdAt(k))]
        relations == {None, Some(<<>>)}
                     \cup {Some(rels(n, gap)) : n \in {3, batch_size + 2}, gap \in {0, 1, 2}}
    IN  {None}
        \cup {Some(WorkItemQueryResult(w, None)) : w \in items(counts)}
        \cup {Some(WorkItemQueryResult(w, r)) :
                w \in {None, Some(<<>>)} \cup items({2}), r \in relations}

\* azure_board_query up to the remote query call: lines 356-377 and 150-154
ReceiveWiqlRequest ==
    /\ pc = "idle"
    /\ \E req \in WiqlRequests, env \in EnvExcludedStates, t \in {<<"Elo">>} :
          LET allowed_fields == IF DOMAIN req.allowed_fields # {} THEN req.allowed_fields
                                ELSE allowed_fields_default
              p == WIQLQueryParams(Split(env, ","), req.area_paths, req.value_filters,
                                   req.keyword_filters, req.query, allowed_fields)
          IN  /\ params' = p
              /\ team' = t
              /\ wiql' = Some(build_query(p, t, p.query))
    /\ pc' = "query"
    /\ UNCHANGED endpointVars

\* QueryRaises without the except branch: the exception leaves get_work_items
QueryRaises_Propagates ==
    /\ pc = "query"
    /\ queryOutcome' = "raised"
    /\ pc' = "fetch_raised"
    /\ UNCHANGED <<params, team, wiql, result, ids, loop_i, bulkCalls, values, response,
                   body, patch_doc, posts, status, created, embedCalls, indexCalls,
                   indexFailed, ret>>

\* client.query_by_wiql raises: lines 156-158, get_work_items returns []
QueryRaises ==
    /\ pc = "query"
    /\ queryOutcome' = "raised"
    /\ values' = <<>>
    /\ pc' = "respond"
    /\ UNCHANGED <<params, team, wiql, result, ids, loop_i, bulkCalls, response, body,
                   patch_doc, posts, status, created, embedCalls, indexCalls,
                   indexFailed, ret>>

\* client.query_by_wiql returns: lines 159-177
QueryReturns ==
    /\ pc = "query"
    /\ \E res \in QueryResults :
          LET x == ExtractIds(res)
          IN  /\ result' = res
              /\ ids' = x.ids
              /\ pc' = IF x.early THEN "respond" ELSE "batch"
    /\ queryOutcome' = "returned"
    /\ values' = <<>>
    /\ loop_i' = 0
    /\ UNCHANGED <<params, team, wiql, bulkCalls, response, body, patch_doc, posts,
                   status, created, embedCalls, indexCalls, indexFailed, ret>>

\* one iteration of the batch loop, lines 178-184
FetchBatch ==
    /\ pc = "batch"
    /\ loop_i < Len(ids)
    /\ LET batch_ids == BatchIds(ids, loop_i)
       IN  /\ bulkCalls' = Append(bulkCalls, batch_ids)
           /\ values' = values \o BatchRows(batch_ids, sorted(DOMAIN params.allowed_fields))
    /\ loop_i' = loop_i + batch_size
    /\ UNCHANGED <<pc, params, team, wiql, queryOutcome, result, ids, response, body,
                   patch_doc, posts, status, created, embedCalls, indexCalls,
                   indexFailed, ret>>

\* client.get_work_items raises at line 180: nothing catches it
BulkRaises ==
    /\ pc = "batch"
    /\ loop_i < Len(ids)
    /\ bulkCalls' = Append(bulkCalls, BatchIds(ids, loop_i))
    /\ pc' = "fetch_raised"
    /\ UNCHANGED <<params, team, wiql, queryOutcome, result, ids, loop_i, values,
                   response, body, patch_doc, posts, status, created, embedCalls,
                   indexCalls, indexFailed, ret>>

\* the loop is over: lines 185-186, get_work_items returns values
FinishFetch ==
    /\ pc = "batch"
    /\ loop_i >= Len(ids)
    /\ pc' = "respond"
    /\ UNCHANGED <<params, team, wiql, queryOutcome, result, ids, loop_i, bulkCalls,
                   values, response, body, patch_doc, posts, status, created,
                   embedCalls, indexCalls, indexFailed, ret>>

\* header of line 380: one title per sorted field
Header(allowed_fields) ==
    LET sorted_fields == sorted(DOMAIN allowed_fields)
    IN  [k \in DOMAIN sorted_fields |-> allowed_fields[sorted_fields[k]].title]

\* lines 379-381: the Response; an entry without 'title' raises KeyError
Respond ==
    /\ pc = "respond"
    /\ IF \A f \in DOMAIN params.allowed_fields : "title" \in DOMAIN params.allowed_fields[f]
       THEN /\ response' = Some([header |-> Header(params.allowed_fields),
                                 values |-> values])
            /\ pc' = "done"
       ELSE /\ response' = None
            /\ pc' = "respond_raised"
    /\ UNCHANGED <<params, team, wiql, queryOutcome, result, ids, loop_i, bulkCalls,
                   values, body, patch_doc, posts, status, created, embedCalls,
                   indexCalls, indexFailed, ret>>

(* ------------------------- /v1/workitems endpoint ---------------------- *)

\* one JSON-Patch operation
PatchOp(path, value) == [op |-> "add", path |-> path, value |-> value]

\* build_patch_document(fields): fields is a dict as a sequence of <<key, value>>
build_patch_document(fields) ==
    [i \in DOMAIN fields |-> PatchOp(<<"/fields/", fields[i][1]>>, fields[i][2])]

\* the keys of a dict given as a sequence of pairs
Keys(d) == {d[i][1] : i \in DOMAIN d}

\* the parent link of lines 417-426
ParentRelation(parent_id) ==
    [rel |-> "System.LinkTypes.Hierarchy-Reverse",
     url |-> <<"https://dev.azure.com/{org}/{project}/_apis/wit/workItems/",
               ToString(parent_id)>>,
     attributes |-> [comment |-> "Linked to parent container"]]

\* lines 398-426: the document create_work_item posts
PatchDocument(b) ==
    build_patch_document(b.fields)
    \o (IF "Custom.BacklogItemType" \notin Keys(b.fields)
        THEN <<PatchOp(<<"/fields/", "Custom.BacklogItemType">>, PyStr(<<"Planned">>))>>
        ELSE <<>>)
    \o (IF b.description # None /\ b.description[1] # <<>>
           /\ "System.Description" \notin Keys(b.fields)
        THEN <<PatchOp(<<"/fields/", "System.Description">>, PyStr(b.description[1]))>>
        ELSE <<>>)
    \o (IF b.area_path # None /\ b.area_path[1] # <<>>
        THEN <<PatchOp(<<"/fields/", "System.AreaPath">>, PyStr(b.area_path[1]))>>
        ELSE <<>>)
    \o (IF b.parent_id # None /\ b.parent_id[1] # 0
        THEN <<PatchOp(<<"/relations/-">>, ParentRelation(b.parent_id[1]))>>
        ELSE <<>>)

\* the fields dicts of the requests served: System.Title, then any of three more
FieldsChoices ==
    { <<<<"System.Title", PyStr(<<"Nova historia">>)>>>>
      \o (IF "d" \in opt THEN <<<<"System.Description", PyStr(<<"dos campos">>)>>>> ELSE <<>>)
      \o (IF "a" \in opt THEN <<<<"System.AreaPath", PyStr(<<"Elo", "\\", "Campos">>)>>>> ELSE <<>>)
      \o (IF "b" \in opt THEN <<<<"Custom.BacklogItemType", PyStr(<<"Unplanned">>)>>>> ELSE <<>>)
      : opt \in SUBSET {"d", "a", "b"} }

CreateWorkItemBody(fields, description, area_path, parent_id, index) ==
    [fields |-> fields, description |-> description, area_path |-> area_path,
     parent_id |-> parent_id, index |-> index]

CreateBodies ==
    { CreateWorkItemBody(f, d, a, pid, ix) :
        f \in FieldsChoices,
        d \in {None, Some(<<>>), Some(<<"do corpo">>)},
        a \in {None, Some(<<"Elo", "\\", "Corpo">>)},
        pid \in {None, Some(0), Some(7)},
        ix \in BOOLEAN }

\* HTTP status codes the creation POST may answer with
Statuses == {200, 201, 204, 302, 400, 404, 500}

\* the status test taken as "no server error"
CreationAccepted_Below500(st) == st < 500

\* line 449: the statuses that do not raise
CreationAccepted(st) == st \in {200, 201}

\* bodies of an accepted creation response; kind "dict" carries the parsed object
CreatedBodies ==
    LET wi_fields == [f \in {"System.Title", "System.Description"} |->
                         PyStr(<<f, "=", "42">>)]
        url == PyStr(<<"https://dev.azure.com/elobr/_apis/wit/workItems/42">>)
    IN  { [kind |-> "dict",
           d |-> [k \in {"id", "url", "fields"} |->
                    CASE k = "id" -> PyInt(42) [] k = "url" -> url [] OTHER -> wi_fields]],
          [kind |-> "dict",
           d |-> [k \in {"id", "url"} |-> IF k = "id" THEN PyInt(42) ELSE url]],
          [kind |-> "dict",
           d |-> [k \in {"id", "url", "fields"} |->
                    CASE k = "id" -> PyInt(42) [] k = "url" -> url
                      [] OTHER -> [f \in {"System.Title"} |-> PyNone]]],
          [kind |-> "dict",
           d |-> [k \in {"url", "fields"} |-> IF k = "url" THEN url ELSE wi_fields]],
          [kind |-> "dict", d |-> <<>>],
          [kind |-> "list", d |-> <<>>],
          [kind |-> "not_json", d |-> <<>>] }

\* d.get(key, default) on a dict given as a function
Get(d, key, default) == IF key \in DOMAIN d THEN d[key] ELSE default

\* the names getattr finds on a dict object: its methods, never its keys
DictAttributes == {"get", "keys", "values", "items", "pop", "update", "copy", "clear"}

\* getattr(obj, name, default) for a dict obj
getattr(obj, name, default) ==
    IF name \in DictAttributes THEN [t |-> "method", v |-> name] ELSE default

\* line 474: the value create_work_item returns
ReturnValue(c) ==
    [id |-> getattr(c, "id", PyStr(<<>>)), url |-> getattr(c, "url", PyStr(<<>>))]

\* lines 460-467: title + "\n" + description raises unless both are strs
IndexTextOk(c) ==
    LET fields == Get(c, "fields", <<>>)
    IN  /\ Get(fields, "System.Title", PyStr(<<>>)).t = "str"
        /\ Get(fields, "System.Description", PyStr(<<>>)).t = "str"

\* lines 472-473: the handler's log line reads created['id']
HandlerRaises(c) == "id" \notin DOMAIN c

wiqlVars == <<params, team, wiql, queryOutcome, result, ids, loop_i, bulkCalls, values,
              response>>

\* create_work_item up to the creation POST: lines 391-441
ReceiveCreateRequest ==
    /\ pc = "idle"
    /\ \E b \in CreateBodies :
          /\ body' = b
          /\ patch_doc' = PatchDocument(b)
    /\ pc' = "post"
    /\ UNCHANGED <<wiqlVars, posts, status, created, embedCalls, indexCalls,
                   indexFailed, ret>>

\* the POST of lines 442-451 is answered with a status that raises
PostRejected ==
    /\ pc = "post"
    /\ \E st \in Statuses :
          /\ ~CreationAccepted(st)
          /\ status' = st
    /\ posts' = posts + 1
    /\ pc' = "create_raised"
    /\ UNCHANGED <<wiqlVars, body, patch_doc, created, embedCalls, indexCalls,
                   indexFailed, ret>>

\* the POST is answered with an accepted status: lines 453-455, and line 474
\* when body.index is false
PostAccepted ==
    /\ pc = "post"
    /\ \E st \in Statuses, rb \in CreatedBodies :
          /\ CreationAccepted(st)
          /\ status' = st
          /\ IF rb.kind # "dict"
             \* response.json() raises, or created.get is no attribute of a list
             THEN /\ pc' = "create_raised"
                  /\ UNCHANGED <<created, ret>>
             ELSE /\ created' = Some(rb.d)
                  /\ IF body.index
                     THEN pc' = "index" /\ ret' = ret
                     ELSE pc' = "created" /\ ret' = Some(ReturnValue(rb.d))
    /\ posts' = posts + 1
    /\ UNCHANGED <<wiqlVars, body, patch_doc, embedCalls, indexCalls, indexFailed>>

\* the except branch of lines 472-473, then line 474
IndexFailure ==
    /\ indexFailed' = TRUE
    /\ IF HandlerRaises(created[1])
       THEN pc' = "create_raised" /\ ret' = ret
       ELSE pc' = "created" /\ ret' = Some(ReturnValue(created[1]))

\* building the text to embed raises: lines 457-467
IndexDocRaises ==
    /\ pc = "index"
    /\ ~IndexTextOk(created[1])
    /\ IndexFailure
    /\ UNCHANGED <<wiqlVars, body, patch_doc, posts, status, created, embedCalls,
                   indexCalls>>

\* get_embedding raises: line 463
EmbeddingRaises ==
    /\ pc = "index"
    /\ IndexTextOk(created[1])
    /\ embedCalls' = embedCalls + 1
    /\ IndexFailure
    /\ UNCHANGED <<wiqlVars, body, patch_doc, posts, status, created, indexCalls>>

\* get_embedding returns: lines 463-469
EmbeddingReturns ==
    /\ pc = "index"
    /\ IndexTextOk(created[1])
    /\ embedCalls' = embedCalls + 1
    /\ pc' = "upsert"
    /\ UNCHANGED <<wiqlVars, body, patch_doc, posts, status, created, indexCalls,
                   indexFailed, ret>>

\* index_work_item raises: line 470
UpsertRaises ==
    /\ pc = "upsert"
    /\ indexCalls' = indexCalls + 1
    /\ IndexFailure
    /\ UNCHANGED <<wiqlVars, body, patch_doc, posts, status, created, embedCalls>>

\* index_work_item returns: lines 470-471, then line 474
UpsertReturns ==
    /\ pc = "upsert"
    /\ indexCalls' = indexCalls + 1
    /\ ret' = Some(ReturnValue(created[1]))
    /\ pc' = "created"
    /\ UNCHANGED <<wiqlVars, body, patch_doc, posts, status, created, embedCalls,
                   indexFailed>>

(* --------------------------- the two endpoints ------------------------- *)

Init ==
    /\ pc = "idle"
    /\ params = None
    /\ team = <<>>
    /\ wiql = None
    /\ EndpointsIdle

Next ==
    \/ ReceiveWiqlRequest
    \/ QueryRaises
    \/ QueryReturns
    \/ FetchBatch
    \/ BulkRaises
    \/ FinishFetch
    \/ Respond
    \/ ReceiveCreateRequest
    \/ PostRejected
    \/ PostAccepted
    \/ IndexDocRaises
    \/ EmbeddingRaises
    \/ EmbeddingReturns
    \/ UpsertRaises
    \/ UpsertReturns

Spec == Init /\ [][Next]_vars

(* ----------------------- claims: get_work_items ------------------------ *)

RECURSIVE Concat(_)
\* the lists of a list of lists, one after the other
Concat(lists) == IF lists = <<>> THEN <<>> ELSE Head(lists) \o Concat(Tail(lists))

\* get_work_items has returned to azure_board_query
FetchReturned == pc \in {"respond", "done", "respond_raised"}

\* C4: every bulk retrieval call carries 1 to 199 IDs and the calls made so
\* far, concatenated in call order, are a prefix of the ID list; once
\* get_work_items has returned there were exactly ceil(n/199) calls and they
\* concatenate to the whole ID list; 250 IDs give calls of 199 and 51 IDs.
C4_Batching ==
    LET requested == Concat(bulkCalls)
    IN  /\ \A c \in DOMAIN bulkCalls : Len(bulkCalls[c]) \in 1..199
        /\ Len(requested) <= Len(ids)
        /\ requested = SubSeq(ids, 1, Len(requested))
        /\ FetchReturned =>
              /\ Len(bulkCalls) = (Len(ids) + 198) \div 199
              /\ requested = ids
              /\ Len(ids) = 250 =>
                    [c \in DOMAIN bulkCalls |-> Len(bulkCalls[c])] = <<199, 51>>

\* 250 IDs were fetched in two calls and the response was sent
C4_Witness ==
    pc = "done" /\ Len(ids) = 250 /\ Len(bulkCalls) = 2 /\ Len(values) = 250

\* C5: once query_by_wiql has raised, get_work_items has returned (it did
\* not raise) with an empty list and no bulk retrieval call is ever made;
\* the response then has empty values.
C5_QueryFailureSwallowed ==
    queryOutcome = "raised" =>
        /\ FetchReturned
        /\ values = <<>>
        /\ bulkCalls = <<>>
        /\ pc = "done" => response[1].values = <<>>

\* the remote query raised and an empty response was sent
C5_Witness ==
    queryOutcome = "raised" /\ pc = "done" /\ response # None /\ bulkCalls = <<>>

\* the allowed-field key that has exactly k - 1 allowed keys before it in str order
KthField(keys, k) ==
    CHOOSE f \in keys : Cardinality({g \in keys : StrRank(g) < StrRank(f)}) = k - 1

\* C6: in every response, header and every row are as long as the number
\* of allowed fields, and position k of the header and of row i is the
\* title, and the value in work item i, of the k-th allowed field in str order.
C6_HeaderRowsAligned ==
    pc = "done" =>
        LET r == response[1]
            allowed == params.allowed_fields
            n == Cardinality(DOMAIN allowed)
        IN  /\ Len(r.header) = n
            /\ Len(r.values) <= Len(ids)
            /\ \A i \in DOMAIN r.values : Len(r.values[i]) = n
            /\ \A k \in 1..n :
                  LET f == KthField(DOMAIN allowed, k)
                  IN  /\ r.header[k] = allowed[f].title
                      /\ \A i \in DOMAIN r.values :
                            r.values[i][k] = ProjectField(WorkItem(ids[i]).fields, f)

\* a response with the fifteen default fields, more rows than one batch, and an
\* empty cell in a row
C6_Witness ==
    /\ pc = "done"
    /\ Len(response[1].header) = 15
    /\ Len(response[1].values) > 199
    /\ \E k \in 1..15 : response[1].values[1][k] = <<>>

\* found is the list of the targets of rels in list order, the relations
\* without target left out
AreTargetsOf(found, rels) ==
    LET with_target == {k \in DOMAIN rels : rels[k] # None}
    IN  /\ Len(found) = Cardinality(with_target)
        /\ \A k \in with_target :
              found[Cardinality({m \in with_target : m <= k})] = rels[k][1]

\* C10: once query_by_wiql has returned, the IDs are those of work_items
\* when that list is present and non-empty, otherwise the targets of
\* work_item_relations, otherwise none; and with an empty ID list no bulk
\* retrieval call is made and get_work_items returns an empty list.
C10_IdSource ==
    queryOutcome = "returned" =>
        /\ IF result = None THEN ids = <<>>
           ELSE IF result[1].work_items # None /\ result[1].work_items[1] # <<>>
           THEN ids = result[1].work_items[1]
           ELSE IF result[1].work_item_relations # None
           THEN AreTargetsOf(ids, result[1].work_item_relations[1])
           ELSE ids = <<>>
        /\ ids = <<>> => (bulkCalls = <<>> /\ values = <<>> /\ pc # "fetch_raised")

\* the IDs came from relation targets, one relation having none, and were fetched
C10_Witness ==
    /\ pc = "done"
    /\ result # None /\ result[1].work_items = None
    /\ result[1].work_item_relations # None
    /\ \E k \in DOMAIN result[1].work_item_relations[1] :
          result[1].work_item_relations[1][k] = None
    /\ ids # <<>> /\ Len(bulkCalls) = 1 /\ Len(values) = Len(ids)

(* ---------------------- claims: create_work_item ----------------------- *)

\* C7: a returned result carries the id and url the creation response reported.
C7_ReturnsCreatedIdAndUrl ==
    (pc = "created" /\ {"id", "url"} \subseteq DOMAIN created[1]) =>
        /\ ret[1].id = created[1]["id"]
        /\ ret[1].url = created[1]["url"]

\* C8: once the indexing step has failed, create_work_item returns its
\* result and does not raise, whatever body the creation response had.
C8_IndexFailureHarmless ==
    indexFailed => (pc = "created" /\ ret # None)

\* C9: at most one creation POST is made, and once it is answered with a
\* non-2xx status create_work_item has raised, returned nothing, and made no
\* embedding or search-index call.
C9_RejectedCreationRaises ==
    /\ posts <= 1
    /\ (posts > 0 /\ status \notin 200..299) =>
          /\ pc = "create_raised"
          /\ ret = None
          /\ embedCalls = 0 /\ indexCalls = 0
          /\ posts = 1

\* a creation that asked for indexing was answered 404 and raised
C9_Witness ==
    /\ pc = "create_raised" /\ status = 404 /\ posts = 1
    /\ body.index /\ embedCalls = 0 /\ indexCalls = 0 /\ ret = None

(* ---------------------- claims: filter clauses ------------------------- *)

\* what the built query q holds in the place of {extra_filters}: the tokens after
\* the template's last indentation and before its ORDER BY part
AppendedFilters(q) ==
    LET at == CHOOSE j \in DOMAIN q :
                  q[j] = "\n   " /\ \A m \in (j + 1)..Len(q) : q[m] # "\n   "
    IN  SubSeq(q, at + 1, Len(q) - 1)

\* C11: with no raw override, what build_query appends to the WHERE clause
\* is, in this order, one [field] IN (...) clause per value filter with a
\* non-empty value list and one [field] CONTAINS 'keyword' clause per keyword
\* filter, each preceded by AND; with no such clause nothing is appended.
C11_FilterClauses ==
    (pc = "built" /\ IsFalsy(params.query)) =>
        LET vf == SelectSeq(params.value_filters, LAMBDA e : e[2] # <<>>)
            kf == params.keyword_filters
            expected == [i \in 1..Len(vf) |-> ValueClause(vf[i][1], vf[i][2])]
                        \o [i \in 1..Len(kf) |-> KeywordClause(kf[i][1], kf[i][2])]
        IN  AppendedFilters(wiql[1])
              = Concat([i \in DOMAIN expected |-> <<" AND ">> \o expected[i]])

\* a query built from a value filter with an empty list, one with values, and
\* two keyword filters
C11_Witness ==
    /\ pc = "built" /\ IsFalsy(params.query)
    /\ Len(params.value_filters) = 2
    /\ params.value_filters[1][2] = <<>> /\ params.value_filters[2][2] # <<>>
    /\ Len(params.keyword_filters) = 2
    /\ Contains(wiql[1], <<"] CONTAINS ">>)

(* ---------------------- claims: the patch document --------------------- *)

\* C12: the JSON-Patch document create_work_item posts holds at most one
\* operation per target path.
C12_OneOperationPerPath ==
    \A i, j \in DOMAIN patch_doc :
        patch_doc[i].path = patch_doc[j].path => i = j

====
